---- MODULE Spec2Model ----
(***************************************************************************)
(* tb-go (src/tb_go/main.py): the traceback parser and the one-run        *)
(* dispatch flow  acquire -> detect -> extract -> select -> open.         *)
(*                                                                         *)
(* A text is a sequence of characters.  The three literal words of the    *)
(* frame pattern ("File", "line", "in"), the marker phrase and the        *)
(* sentinel "<module>" are kept as single symbols; every other symbol is  *)
(* one character.  None of the word symbols starts or ends with           *)
(* whitespace or holds a quote or a line feed, so the pattern, strip and  *)
(* split act on the symbols exactly as they act on the characters.        *)
(***************************************************************************)
EXTENDS Integers, Sequences, FiniteSets, TLC

\* ------------------------------------------------------------------ bounds

\* Largest number of lines in an acquired text.
MaxLines == 2

\* ------------------------------------------------------------- characters

NL == "\n"
SP == " "
Q == "\""
MARKER == "Traceback (most recent call last)"
MODULE_SENTINEL == <<"<module>">>

DigitChars == <<"0", "1", "2", "3", "4", "5", "6", "7", "8", "9">>

\* Python's \s and str.strip() whitespace (the ASCII part).
Whitespace == {" ", "\n", "\t", "\r"}

IsSpace(c) == c \in Whitespace

Digits == {DigitChars[d] : d \in 1..Len(DigitChars)}

DigitVal(c) == (CHOOSE d \in 1..Len(DigitChars) : DigitChars[d] = c) - 1

\* int(match.group(2)): the decimal value of a digit string.
RECURSIVE ParseInt(_)
ParseInt(ds) ==
    IF ds = <<>> THEN 0
    ELSE 10 * ParseInt(SubSeq(ds, 1, Len(ds) - 1)) + DigitVal(ds[Len(ds)])

\* The f-string rendering of an int: decimal digits, no leading zeros.
RECURSIVE IntToStr(_)
IntToStr(n) ==
    IF n < 10 THEN <<DigitChars[n + 1]>>
    ELSE IntToStr(n \div 10) \o <<DigitChars[(n % 10) + 1]>>

\* str.strip(): drop leading and trailing whitespace.
RECURSIVE LStrip(_)
LStrip(s) ==
    IF s # <<>> /\ IsSpace(s[1]) THEN LStrip(Tail(s)) ELSE s

RECURSIVE RStrip(_)
RStrip(s) ==
    IF s # <<>> /\ IsSpace(s[Len(s)]) THEN RStrip(SubSeq(s, 1, Len(s) - 1)) ELSE s

Strip(s) == RStrip(LStrip(s))

\* First position >= p of s holding a symbol outside S, or Len(s)+1.
RECURSIVE SkipWhile(_, _, _)
SkipWhile(s, p, S) ==
    IF p > Len(s) \/ s[p] \notin S THEN p ELSE SkipWhile(s, p + 1, S)

\* First position >= p of s holding a symbol of S, or Len(s)+1.
RECURSIVE ScanUntil(_, _, _)
ScanUntil(s, p, S) ==
    IF p > Len(s) \/ s[p] \in S THEN p ELSE ScanUntil(s, p + 1, S)

\* text.split('\n'): the pieces between line feeds (at least one piece).
RECURSIVE Split(_)
Split(s) ==
    LET e == ScanUntil(s, 1, {NL})
    IN  IF e > Len(s) THEN <<s>>
        ELSE <<SubSeq(s, 1, e - 1)>> \o Split(SubSeq(s, e + 1, Len(s)))

\* '\n'.join(items)
RECURSIVE Join(_)
Join(ls) ==
    IF ls = <<>> THEN <<>>
    ELSE IF Len(ls) = 1 THEN ls[1]
    ELSE ls[1] \o <<NL>> \o Join(Tail(ls))

\* s has the literal lit at position p.
HasLit(s, p, lit) ==
    /\ p + Len(lit) - 1 <= Len(s)
    /\ \A k \in 1..Len(lit) : s[p + k - 1] = lit[k]

\* --------------------------------------------------------- frame pattern

NoMatch == [matched |-> FALSE, g1 |-> <<>>, g2 |-> <<>>, g3 |-> <<>>]

LitFile == <<"File", SP, Q>>
LitLine == <<Q, ",", SP, "line", SP>>
LitIn == <<",", SP, "in", SP>>

\* TRACEBACK_PATTERN tried at position p of s (re.MULTILINE):
\*   ^\s*File "([^"]+)", line (\d+)(?:, in (.+))?$
\* g3 = <<>> stands for an absent group 3 (None): .+ never captures "".
PatternAt(s, p) ==
    LET atLineStart == p = 1 \/ (p - 1 <= Len(s) /\ s[p - 1] = NL)
        f == SkipWhile(s, p, Whitespace)               \* \s*
        p1 == f + Len(LitFile)                      \* File "
        q == ScanUntil(s, p1, {Q})                  \* ([^"]+)
        d1 == q + Len(LitLine)                      \* ", line
        e == SkipWhile(s, d1, Digits)               \* (\d+)
        n1 == e + Len(LitIn)                        \* , in
        g == ScanUntil(s, n1, {NL})                \* (.+)
        atLineEnd(k) == k = Len(s) + 1 \/ s[k] = NL \* $
    IN  IF ~(/\ atLineStart
             /\ HasLit(s, f, LitFile)
             /\ q > p1
             /\ HasLit(s, q, LitLine)
             /\ e > d1)
        THEN NoMatch
        ELSE IF HasLit(s, e, LitIn) /\ g > n1
        THEN [matched |-> TRUE, g1 |-> SubSeq(s, p1, q - 1),
              g2 |-> SubSeq(s, d1, e - 1), g3 |-> SubSeq(s, n1, g - 1)]
        ELSE IF atLineEnd(e)
        THEN [matched |-> TRUE, g1 |-> SubSeq(s, p1, q - 1),
              g2 |-> SubSeq(s, d1, e - 1), g3 |-> <<>>]
        ELSE NoMatch

\* TRACEBACK_PATTERN.match(line): anchored at the start of the string.
PatternMatch(line) == PatternAt(line, 1)

\* TRACEBACK_PATTERN.search(text): some position of the text matches.
PatternSearch(s) == \E p \in 1..(Len(s) + 1) : PatternAt(s, p).matched

\* 'Traceback (most recent call last)' in text
ContainsMarker(s) == \E p \in 1..Len(s) : s[p] = MARKER

\* TracebackParser.has_traceback
has_traceback(s) == ContainsMarker(s) \/ PatternSearch(s)

\* FunctionOf with a fault: no default for an absent "in" clause.
FunctionOf_NoDefault(m) == m.g3

\* function = match.group(3) if match.group(3) else "<module>"
FunctionOf(m) == IF m.g3 # <<>> THEN m.g3 ELSE MODULE_SENTINEL

\* CodeOf with a fault: the following line is taken as it is, not stripped.
CodeOf_NoStrip(lines, i) == IF i + 1 <= Len(lines) THEN lines[i + 1] ELSE <<>>

\* code = lines[i + 1].strip() if i + 1 < len(lines) else ""   (i is 1-based here)
CodeOf(lines, i) == IF i + 1 <= Len(lines) THEN Strip(lines[i + 1]) ELSE <<>>

\* The TracebackLocation built for a matching line.
LocationOf(lines, i) ==
    LET m == PatternMatch(lines[i])
    IN  [filepath |-> m.g1, line |-> ParseInt(m.g2),
         function |-> FunctionOf(m), code |-> CodeOf(lines, i)]

\* ParseFrom with a fault: the loop ends at the first matching line.
ParseFrom_StopsAtFirst(lines, i) ==
    LET hits == {k \in i..Len(lines) : PatternMatch(lines[k]).matched}
    IN  IF hits = {} THEN <<>>
        ELSE <<LocationOf(lines, CHOOSE k \in hits : \A j \in hits : k <= j)>>

\* The loop of parse over lines i..len(lines).
RECURSIVE ParseFrom(_, _)
ParseFrom(lines, i) ==
    IF i > Len(lines) THEN <<>>
    ELSE (IF PatternMatch(lines[i]).matched THEN <<LocationOf(lines, i)>> ELSE <<>>)
         \o ParseFrom(lines, i + 1)

\* TracebackParser.parse
parse(s) == ParseFrom(Split(s), 1)

\* TracebackLocation.__str__
Display(loc) ==
    LET func_part == IF loc.function # <<>> THEN <<SP, "in", SP>> \o loc.function ELSE <<>>
    IN  loc.filepath \o <<":">> \o IntToStr(loc.line) \o func_part
        \o <<":", SP>> \o Strip(loc.code)

\* ------------------------------------------------------------ input texts

\* The lines an acquired text is made of: frame headers (with and without
\* the "in" clause, indented, with a path that starts with a blank, with
\* leading zeros), a code line, the marker line, and near misses.
L_EMPTY == <<>>
L_CODE == <<SP, SP, "x", SP>>
L_HDR_F == LitFile \o <<"a">> \o LitLine \o <<"1">> \o LitIn \o <<"f">>
L_HDR == LitFile \o <<"a">> \o LitLine \o <<"1">>
L_HDR_WS == <<SP>> \o LitFile \o <<SP, "b">> \o LitLine \o <<"0", "2">>
L_ZERO == LitFile \o <<"a">> \o LitLine \o <<"0">>
L_MARK == <<MARKER, ":">>
L_OPEN == LitFile \o <<"a">>
L_CLOSE == <<"b">> \o LitLine \o <<"3">>
L_NONAME == L_HDR \o LitIn
L_PREFIXED == <<"x", SP>> \o L_HDR

LinePool ==
    {L_EMPTY, L_CODE, L_HDR_F, L_HDR, L_HDR_WS, L_ZERO, L_MARK,
     L_OPEN, L_CLOSE, L_NONAME, L_PREFIXED}

\* Every text of 1..MaxLines lines of the pool, joined by line feeds.
Texts == {Join(ls) : ls \in UNION {[1..n -> LinePool] : n \in 1..MaxLines}}

\* What str(e) is when the wrapped command cannot be started.
ErrText == <<"[Errno 2] No such file or directory">>

\* Exit statuses of the wrapped command and of the picker.
ExitCodes == {0, 1, 2}
FzfExitCodes == {0, 1, 130}

\* A local that has not been assigned yet.
Unset == 0 - 1

\* ------------------------------------------------------------------ state

VARIABLES
    command,         \* args.command: <<>> when no command was given
    stdin_is_piped,  \* not sys.stdin.isatty()
    DEBUG,           \* the global debug flag, set from --debug
    pc,              \* the position of main
    text,            \* the acquired text
    exit_code,       \* the wrapped command's exit code
    locations,       \* parse(text)
    selected,        \* index in locations of the chosen Location, 0 for None
    main_return,     \* what main returned (the process exit code)
    consulted,       \* the input sources read so far
    stdout,          \* the messages printed, in order
    stderr,          \* the number of [DEBUG] lines written
    editor,          \* the editor launches: <<[filepath, line]>>
    temp_file,       \* the candidate-list file: "none", "exists", "removed"
    fzf_rc,          \* the picker's exit status
    fzf_out,         \* the picker's captured standard output
    phases           \* the phases entered, in order

vars ==
    <<command, stdin_is_piped, DEBUG, pc, text, exit_code, locations, selected,
      main_return, consulted, stdout, stderr, editor, temp_file, fzf_rc,
      fzf_out, phases>>

\* State after main has parsed its arguments and looked at stdin (lines
\* 373-389): a run starts at Acquire.  What argparse does with a command
\* line it rejects happens before the run and is not part of it.
Init ==
    /\ command \in {<<>>, <<"cmd">>}
    /\ stdin_is_piped \in BOOLEAN
    /\ DEBUG \in BOOLEAN
    /\ pc = "Acquire"
    /\ text = <<>>
    /\ exit_code = Unset
    /\ locations = <<>>
    /\ selected = 0
    /\ main_return = Unset
    /\ consulted = {}
    /\ stdout = <<>>
    /\ stderr = IF DEBUG THEN 3 ELSE 0
    /\ editor = <<>>
    /\ temp_file = "none"
    /\ fzf_rc = Unset
    /\ fzf_out = <<>>
    /\ phases = <<"Acquire">>

\* debug_print called n times.
debug_print(n) == stderr' = IF DEBUG THEN stderr + n ELSE stderr

\* print / print_colored of the messages msgs.
print_colored(msgs) == stdout' = stdout \o msgs

\* Return with a fault: the code main returns is dropped and the process exits 0.
Return_Swallowed(code) ==
    /\ pc' = "Done"
    /\ main_return' = 0
    /\ phases' = Append(phases, "Done")

\* main returns code.
Return(code) ==
    /\ pc' = "Done"
    /\ main_return' = code
    /\ phases' = Append(phases, "Done")

\* main moves on to the next phase.
Enter(phase) ==
    /\ pc' = phase
    /\ phases' = Append(phases, phase)
    /\ UNCHANGED main_return

\* ---------------------------------------------------------------- acquire

\* ReadStdin with a fault: piped stdin is read whether or not a command was given.
ReadStdin_IgnoresCommand ==
    /\ pc = "Acquire"
    /\ stdin_is_piped
    /\ \E t \in Texts : text' = t
    /\ consulted' = consulted \cup {"stdin"}
    /\ print_colored(<<"Reading traceback from stdin...">>)
    /\ debug_print(2)
    /\ Enter("ParseCheck")
    /\ UNCHANGED <<command, stdin_is_piped, DEBUG, exit_code, locations, selected,
                   editor, temp_file, fzf_rc, fzf_out>>

\* Mode 1a: no command and stdin is piped: text = sys.stdin.read().
ReadStdin ==
    /\ pc = "Acquire"
    /\ command = <<>>
    /\ stdin_is_piped
    /\ \E t \in Texts : text' = t
    /\ consulted' = consulted \cup {"stdin"}
    /\ print_colored(<<"Reading traceback from stdin...">>)
    /\ debug_print(2)
    /\ Enter("ParseCheck")
    /\ UNCHANGED <<command, stdin_is_piped, DEBUG, exit_code, locations, selected,
                   editor, temp_file, fzf_rc, fzf_out>>

\* Mode 1b: no command and stdin is a tty: read_clipboard(), which tries
\* xclip, xsel and pbpaste in turn and raises ClipboardError when none works.
ReadClipboard ==
    /\ pc = "Acquire"
    /\ command = <<>>
    /\ ~stdin_is_piped
    /\ consulted' = consulted \cup {"clipboard"}
    /\ \E provider \in {"xclip", "xsel", "pbpaste", "none"} :
          IF provider = "none"
          THEN /\ print_colored(<<"Reading traceback from clipboard...",
                                  "Error: Could not read clipboard", "Usage">>)
               /\ debug_print(7)
               /\ Return(1)
               /\ UNCHANGED text
          ELSE /\ \E t \in Texts : text' = t
               /\ print_colored(<<"Reading traceback from clipboard...">>)
               /\ debug_print(CASE provider = "xclip" -> 4
                                [] provider = "xsel" -> 6
                                [] provider = "pbpaste" -> 8)
               /\ Enter("ParseCheck")
    /\ UNCHANGED <<command, stdin_is_piped, DEBUG, exit_code, locations, selected,
                   editor, temp_file, fzf_rc, fzf_out>>

\* RunCommand with a fault: exit code 0 does not end the run.
RunCommand_NoShortCircuit ==
    /\ pc = "Acquire"
    /\ command # <<>>
    /\ consulted' = consulted \cup {"command"}
    /\ \E started \in BOOLEAN :
          IF started
          THEN /\ \E t \in Texts, code \in ExitCodes :
                    /\ text' = t
                    /\ exit_code' = code
               /\ debug_print(4)
          ELSE /\ text' = ErrText
               /\ exit_code' = 1
               /\ debug_print(3)
    /\ print_colored(<<"Running: cmd", "Command failed">>)
    /\ Enter("ParseCheck")
    /\ UNCHANGED <<command, stdin_is_piped, DEBUG, locations, selected,
                   editor, temp_file, fzf_rc, fzf_out>>

\* RunCommand with a fault: run lets the failure to start the command
\* escape, and main ends on it without handing any text to detection.
RunCommand_StartFailureEscapes ==
    /\ pc = "Acquire"
    /\ command # <<>>
    /\ consulted' = consulted \cup {"command"}
    /\ \E started \in BOOLEAN :
          IF started
          THEN /\ \E t \in Texts, code \in ExitCodes : \E k \in 0..Len(t) :
                    LET out == SubSeq(t, 1, k)
                        err == SubSeq(t, k + 1, Len(t))
                    IN  /\ text' = out \o err
                        /\ exit_code' = code
               /\ debug_print(4)
               /\ IF exit_code' = 0
                  THEN /\ print_colored(<<"Running: cmd", "Command succeeded (exit code 0)",
                                          "No errors to navigate to.">>)
                       /\ Return(0)
                  ELSE /\ print_colored(<<"Running: cmd", "Command failed">>)
                       /\ Enter("ParseCheck")
          ELSE /\ text' = ErrText
               /\ UNCHANGED exit_code
               /\ debug_print(2)
               /\ print_colored(<<"Running: cmd">>)
               /\ Return(1)
    /\ UNCHANGED <<command, stdin_is_piped, DEBUG, locations, selected,
                   editor, temp_file, fzf_rc, fzf_out>>

\* Mode 2: a command was given: CommandRunner.run(command), whose output is
\* stdout + stderr; exit code 0 ends the run.
RunCommand ==
    /\ pc = "Acquire"
    /\ command # <<>>
    /\ consulted' = consulted \cup {"command"}
    /\ \E started \in BOOLEAN :
          IF started
          THEN /\ \E t \in Texts, code \in ExitCodes : \E k \in 0..Len(t) :
                    LET out == SubSeq(t, 1, k)
                        err == SubSeq(t, k + 1, Len(t))
                    IN  /\ text' = out \o err
                        /\ exit_code' = code
               /\ debug_print(4)
          ELSE /\ text' = ErrText
               /\ exit_code' = 1
               /\ debug_print(3)
    /\ IF exit_code' = 0
       THEN /\ print_colored(<<"Running: cmd", "Command succeeded (exit code 0)",
                               "No errors to navigate to.">>)
            /\ Return(0)
       ELSE /\ print_colored(<<"Running: cmd", "Command failed">>)
            /\ Enter("ParseCheck")
    /\ UNCHANGED <<command, stdin_is_piped, DEBUG, locations, selected,
                   editor, temp_file, fzf_rc, fzf_out>>

\* ------------------------------------------------------------------ parse

\* if not parser_obj.has_traceback(text): ... return 1
ParseCheck ==
    /\ pc = "ParseCheck"
    /\ IF has_traceback(text)
       THEN /\ debug_print(1)
            /\ Enter("ParseExtract")
            /\ UNCHANGED stdout
       ELSE /\ print_colored(<<"No traceback found in output">>)
            /\ debug_print(2)
            /\ Return(1)
    /\ UNCHANGED <<command, stdin_is_piped, DEBUG, text, exit_code, locations,
                   selected, consulted, editor, temp_file, fzf_rc, fzf_out>>

\* locations = parser_obj.parse(text); if not locations: ... return 1
ParseExtract ==
    /\ pc = "ParseExtract"
    /\ locations' = parse(text)
    /\ IF locations' = <<>>
       THEN /\ print_colored(<<"No traceback locations found">>)
            /\ debug_print(2)
            /\ Return(1)
       ELSE /\ print_colored(<<"Found traceback location(s)">>)
            /\ debug_print(2 + Len(locations'))
            /\ Enter("Select")
    /\ UNCHANGED <<command, stdin_is_piped, DEBUG, text, exit_code, selected,
                   consulted, editor, temp_file, fzf_rc, fzf_out>>

\* ----------------------------------------------------------------- select

\* items = [str(loc) for loc in locations]
Items == [k \in 1..Len(locations) |-> Display(locations[k])]

\* The lines the picker reads from the candidate-list file.
Candidates == Split(Join(Items))

\* Fallback with a fault: the first Location is chosen, not the last.
Fallback_First ==
    /\ selected' = IF locations = <<>> THEN 0 ELSE 1
    /\ print_colored(<<"fzf not found, opening last location...">>)
    /\ pc' = "AfterSelect"

\* select_location's handler of FzfNotFoundError:
\*   return locations[-1] if locations else None
Fallback ==
    /\ selected' = Len(locations)
    /\ print_colored(<<"fzf not found, opening last location...">>)
    /\ pc' = "AfterSelect"

\* FzfSelector.select, the availability check: fzf --version.
FzfCheck ==
    /\ pc = "Select"
    /\ debug_print(3)
    /\ \E found \in BOOLEAN :
          IF found
          THEN /\ pc' = "FzfTemp"
               /\ UNCHANGED <<selected, stdout>>
          ELSE Fallback
    /\ UNCHANGED <<command, stdin_is_piped, DEBUG, text, exit_code, locations,
                   main_return, consulted, editor, temp_file, fzf_rc, fzf_out, phases>>

\* FzfSelector.select, the candidate list written to a NamedTemporaryFile
\* (delete=False); a failure is re-raised as FzfNotFoundError.
FzfTempFile ==
    /\ pc = "FzfTemp"
    /\ \E r \in {"ok", "create_failed", "write_failed"} :
          IF r = "ok"
          THEN /\ temp_file' = "exists"
               /\ debug_print(3 + Len(Items))
               /\ pc' = "FzfRun"
               /\ UNCHANGED <<selected, stdout>>
          ELSE /\ temp_file' = IF r = "write_failed" THEN "exists" ELSE temp_file
               /\ debug_print(3 + Len(Items))
               /\ Fallback
    /\ UNCHANGED <<command, stdin_is_piped, DEBUG, text, exit_code, locations,
                   main_return, consulted, editor, fzf_rc, fzf_out, phases>>

\* FzfSelector.select, the picker run on /dev/tty with its stdout captured;
\* the finally clause unlinks the file whatever happened.
FzfRun ==
    /\ pc = "FzfRun"
    /\ temp_file' = "removed"
    /\ debug_print(1)
    /\ \E r \in {"ok", "tty_failed", "launch_failed"} :
          IF r = "ok"
          THEN /\ \E rc \in FzfExitCodes :
                    /\ fzf_rc' = rc
                    /\ IF rc = 0
                       THEN \E k \in 1..Len(Candidates) :
                               fzf_out' = Candidates[k] \o <<NL>>
                       ELSE fzf_out' = <<>>
               /\ pc' = "FzfResult"
               /\ UNCHANGED <<selected, stdout>>
          ELSE /\ Fallback
               /\ UNCHANGED <<fzf_rc, fzf_out>>
    /\ UNCHANGED <<command, stdin_is_piped, DEBUG, text, exit_code, locations,
                   main_return, consulted, editor, phases>>

\* for loc in locations: if str(loc) == selected_text: return loc
\* (0 when no Location matches: return None)
MatchSelection(selected_text) ==
    LET hits == {k \in 1..Len(locations) : Display(locations[k]) = selected_text}
    IN  IF hits = {} THEN 0 ELSE CHOOSE k \in hits : \A j \in hits : k <= j

\* FzfResult with a fault: a non-zero picker status raises (check=True), which
\* select re-raises as FzfNotFoundError.
FzfResult_NonZeroRaises ==
    /\ pc = "FzfResult"
    /\ IF fzf_rc # 0
       THEN /\ Fallback
            /\ debug_print(1)
       ELSE /\ selected' = MatchSelection(Strip(fzf_out))
            /\ debug_print(IF selected' = 0 THEN 2 ELSE 1)
            /\ pc' = "AfterSelect"
            /\ UNCHANGED stdout
    /\ UNCHANGED <<command, stdin_is_piped, DEBUG, text, exit_code, locations,
                   main_return, consulted, editor, temp_file, fzf_rc,
                   fzf_out, phases>>

\* FzfResult with a fault: a non-zero picker status makes select write the
\* candidate list and run the picker again.
FzfResult_AsksAgain ==
    /\ pc = "FzfResult"
    /\ IF fzf_rc # 0
       THEN /\ selected' = 0
            /\ debug_print(1)
            /\ pc' = "FzfTemp"
       ELSE /\ selected' = MatchSelection(Strip(fzf_out))
            /\ debug_print(IF selected' = 0 THEN 2 ELSE 1)
            /\ pc' = "AfterSelect"
    /\ UNCHANGED <<command, stdin_is_piped, DEBUG, text, exit_code, locations,
                   main_return, consulted, stdout, editor, temp_file, fzf_rc,
                   fzf_out, phases>>

\* FzfSelector.select, the picker's result: a non-zero status is a
\* cancellation, otherwise stdout.strip() is matched against the items.
FzfResult ==
    /\ pc = "FzfResult"
    /\ IF fzf_rc # 0
       THEN /\ selected' = 0
            /\ debug_print(1)
       ELSE /\ selected' = MatchSelection(Strip(fzf_out))
            /\ debug_print(IF selected' = 0 THEN 2 ELSE 1)
    /\ pc' = "AfterSelect"
    /\ UNCHANGED <<command, stdin_is_piped, DEBUG, text, exit_code, locations,
                   main_return, consulted, stdout, editor, temp_file, fzf_rc,
                   fzf_out, phases>>

\* AfterSelect with a fault: a cancelled selection asks again and does
\* not end the run.
AfterSelect_AsksAgain ==
    /\ pc = "AfterSelect"
    /\ IF selected = 0
       THEN /\ print_colored(<<"Cancelled">>)
            /\ Enter("Select")
            /\ UNCHANGED stderr
       ELSE /\ print_colored(<<"Opening">>)
            /\ debug_print(1)
            /\ Enter("Open")
    /\ UNCHANGED <<command, stdin_is_piped, DEBUG, text, exit_code, locations,
                   selected, consulted, editor, temp_file, fzf_rc, fzf_out>>

\* if not selected: print "Cancelled"; return 0
AfterSelect ==
    /\ pc = "AfterSelect"
    /\ IF selected = 0
       THEN /\ print_colored(<<"Cancelled">>)
            /\ Return(0)
            /\ UNCHANGED stderr
       ELSE /\ print_colored(<<"Opening">>)
            /\ debug_print(1)
            /\ Enter("Open")
    /\ UNCHANGED <<command, stdin_is_piped, DEBUG, text, exit_code, locations,
                   selected, consulted, editor, temp_file, fzf_rc, fzf_out>>

\* ------------------------------------------------------------------- open

\* OpenEditor with a fault: the editor is opened on the first Location of
\* the list and not on the selected one.
OpenEditor_FirstLocation ==
    /\ pc = "Open"
    /\ \E r \in {"ok", "vim_missing", "system_error"} :
          IF r = "ok"
          THEN /\ editor' = Append(editor, [filepath |-> locations[1].filepath,
                                            line |-> locations[1].line])
               /\ debug_print(5)
               /\ Return(0)
               /\ UNCHANGED stdout
          ELSE /\ print_colored(<<"Error: vim">>)
               /\ debug_print(IF r = "vim_missing" THEN 2 ELSE 4)
               /\ Return(1)
               /\ UNCHANGED editor
    /\ UNCHANGED <<command, stdin_is_piped, DEBUG, text, exit_code, locations,
                   selected, consulted, temp_file, fzf_rc, fzf_out>>

\* VimOpener.open(selected) and the end of main.
OpenEditor ==
    /\ pc = "Open"
    /\ \E r \in {"ok", "vim_missing", "system_error"} :
          IF r = "ok"
          THEN /\ editor' = Append(editor, [filepath |-> locations[selected].filepath,
                                            line |-> locations[selected].line])
               /\ debug_print(5)
               /\ Return(0)
               /\ UNCHANGED stdout
          ELSE /\ print_colored(<<"Error: vim">>)
               /\ debug_print(IF r = "vim_missing" THEN 2 ELSE 4)
               /\ Return(1)
               /\ UNCHANGED editor
    /\ UNCHANGED <<command, stdin_is_piped, DEBUG, text, exit_code, locations,
                   selected, consulted, temp_file, fzf_rc, fzf_out>>

Next ==
    \/ ReadStdin
    \/ ReadClipboard
    \/ RunCommand
    \/ ParseCheck
    \/ ParseExtract
    \/ FzfCheck
    \/ FzfTempFile
    \/ FzfRun
    \/ FzfResult
    \/ AfterSelect
    \/ OpenEditor

Spec == Init /\ [][Next]_vars

\* The positions of main and of select, in the order of the code.
PCOrder ==
    <<"Acquire", "ParseCheck", "ParseExtract", "Select", "FzfTemp", "FzfRun",
      "FzfResult", "AfterSelect", "Open", "Done">>

PCs == {PCOrder[i] : i \in 1..Len(PCOrder)}

\* main moves on from where it is: the call it is waiting for (clipboard
\* tool, stdin, wrapped command, picker, editor) returns and the code after
\* it runs.  Every action of Next is such a step.
Advance == pc # "Done" /\ pc' \in PCs \ {pc}

\* main is sequential code with no wait of its own: as long as it has not
\* returned, it moves on once the call in progress has returned.
FairSpec == Spec /\ WF_pc(Advance)

\* ======================================================================
\* Properties
\* ======================================================================

\* -------------------------------------------- the text, read line by line

\* Positions of the line feeds of t, and the position of the k-th one
\* (0 before the first line, Len(t)+1 after the last).
NLPos(t) == {i \in 1..Len(t) : t[i] = NL}

NumLines(t) == Cardinality(NLPos(t)) + 1

NthNL(t, k) ==
    IF k = 0 THEN 0
    ELSE IF k > Cardinality(NLPos(t)) THEN Len(t) + 1
    ELSE CHOOSE i \in NLPos(t) : Cardinality({j \in NLPos(t) : j <= i}) = k

\* The k-th line of t, and the lines of t in order.
TextLine(t, k) == SubSeq(t, NthNL(t, k - 1) + 1, NthNL(t, k) - 1)

TextLines(t) ==
    LET P == NLPos(t)
        n == Cardinality(P)
        nth == [k \in 0..(n + 1) |->
                  IF k = 0 THEN 0
                  ELSE IF k > n THEN Len(t) + 1
                  ELSE CHOOSE i \in P : Cardinality({j \in P : j <= i}) = k]
    IN  [k \in 1..(n + 1) |-> SubSeq(t, nth[k - 1] + 1, nth[k] - 1)]

\* s[a..b] is the literal lit.
IsLitAt(s, a, b, lit) ==
    /\ b - a + 1 = Len(lit)
    /\ a >= 1
    /\ b <= Len(s)
    /\ SubSeq(s, a, b) = lit

\* The frame-header shape, as the set of ways to cut a line into
\*   blanks[1..a]  File "  path[..b]  ", line   digits[..c]  rest
\* where path is non-empty and holds no quote, digits is a non-empty digit
\* string, and rest is empty or is  , in  followed by a non-empty name.
BlankCuts(line) ==
    {a \in 0..Len(line) :
        /\ \A i \in 1..a : line[i] \in Whitespace
        /\ IsLitAt(line, a + 1, a + Len(LitFile), LitFile)}

PathCuts(line, a) ==
    {b \in (a + Len(LitFile) + 1)..Len(line) :
        /\ \A i \in (a + Len(LitFile) + 1)..b : line[i] # Q
        /\ IsLitAt(line, b + 1, b + Len(LitLine), LitLine)}

DigitCuts(line, b) ==
    {c \in (b + Len(LitLine) + 1)..Len(line) :
        /\ \A i \in (b + Len(LitLine) + 1)..c : line[i] \in Digits
        /\ \/ c = Len(line)
           \/ /\ IsLitAt(line, c + 1, c + Len(LitIn), LitIn)
              /\ c + Len(LitIn) < Len(line)}

HeaderCuts(line) ==
    UNION {UNION {{<<a, b, c>> : c \in DigitCuts(line, b)} : b \in PathCuts(line, a)} :
           a \in BlankCuts(line)}

IsFrameHeader(line) == HeaderCuts(line) # {}

\* The parts of a frame-header line; name is <<>> without an "in" clause.
HeaderFields(line) ==
    LET cut == CHOOSE x \in HeaderCuts(line) : TRUE
    IN  [path |-> SubSeq(line, cut[1] + Len(LitFile) + 1, cut[2]),
         digits |-> SubSeq(line, cut[2] + Len(LitLine) + 1, cut[3]),
         name |-> IF cut[3] = Len(line) THEN <<>>
                  ELSE SubSeq(line, cut[3] + Len(LitIn) + 1, Len(line))]

\* The numbers of the frame-header lines among ls, in increasing order.
HeaderSeq(ls) ==
    LET H == {i \in 1..Len(ls) : IsFrameHeader(ls[i])}
    IN  [k \in 1..Cardinality(H) |->
            CHOOSE i \in H : Cardinality({j \in H : j < i}) = k - 1]

\* s with its leading and trailing whitespace cut off, said without a scan:
\* t is s less a blank prefix and a blank suffix, and t has no blank end.
IsTrimOf(t, s) ==
    \E a \in 0..(Len(s) - Len(t)) :
        LET b == Len(s) - Len(t) - a
        IN  /\ \A i \in 1..a : s[i] \in Whitespace
            /\ \A i \in (Len(s) - b + 1)..Len(s) : s[i] \in Whitespace
            /\ t = SubSeq(s, a + 1, Len(s) - b)
            /\ t # <<>> => (t[1] \notin Whitespace /\ t[Len(t)] \notin Whitespace)

\* ------------------------------------------------------- the run so far

Returned == pc = "Done"

\* The phase the run was in when it returned.
LastPhase == phases[Len(phases) - 1]

Printed(msg) == \E i \in 1..Len(stdout) : stdout[i] = msg

Entered(phase) == \E i \in 1..Len(phases) : phases[i] = phase

\* parse has been applied to the text of this run.
Extracted == Entered("ParseExtract") /\ pc # "ParseExtract"

\* select_location took the fallback (FzfSelector.select raised FzfNotFoundError).
SelectorUnavailable == Printed("fzf not found, opening last location...")

\* The outcomes of a run that has returned.
EditorOpened == LastPhase = "Open" /\ Len(editor) = 1
SelectionCancelled == LastPhase = "Select" /\ selected = 0 /\ Printed("Cancelled")
CommandExitedZero == LastPhase = "Acquire" /\ command # <<>> /\ exit_code = 0
NoInputSource ==
    /\ LastPhase = "Acquire"
    /\ command = <<>>
    /\ ~stdin_is_piped
    /\ Printed("Error: Could not read clipboard")
NoTracebackDetected == LastPhase = "ParseCheck" /\ Printed("No traceback found in output")
EmptyExtraction ==
    LastPhase = "ParseExtract" /\ locations = <<>> /\ Printed("No traceback locations found")
EditorUnavailable == LastPhase = "Open" /\ editor = <<>> /\ Printed("Error: vim")

\* ---------------------------------------------------------------- claims

ExpectedSource ==
    IF command # <<>> THEN "command"
    ELSE IF stdin_is_piped THEN "stdin" ELSE "clipboard"

\* C2: before acquisition no source has been read, and from then on exactly
\* one has: the command when one was given, else stdin when it is piped,
\* else the clipboard.
C2_OneSource ==
    /\ pc = "Acquire" => consulted = {}
    /\ pc # "Acquire" => consulted = {ExpectedSource}

\* C2 witness: a command was given while stdin is piped, and only the
\* command was run.
C2_Witness ==
    /\ command # <<>>
    /\ stdin_is_piped
    /\ pc = "ParseCheck"
    /\ consulted = {"command"}

\* C3: once the wrapped command has exited with code 0 the run has ended
\* with exit code 0, having entered no phase after Acquire (no detection,
\* no extraction, no selection, no editor), and it printed the
\* command-success message and not the cancellation message.
C3_CommandSuccessShortCircuits ==
    (command # <<>> /\ exit_code = 0) =>
        /\ Returned
        /\ main_return = 0
        /\ phases = <<"Acquire", "Done">>
        /\ locations = <<>>
        /\ selected = 0
        /\ fzf_rc = Unset
        /\ temp_file = "none"
        /\ editor = <<>>
        /\ Printed("Command succeeded (exit code 0)")
        /\ ~Printed("Cancelled")

\* C3 witness: the command exited 0 after printing a frame header.
C3_Witness ==
    /\ command # <<>>
    /\ exit_code = 0
    /\ Returned
    /\ HeaderSeq(TextLines(text)) # <<>>

\* C4: when the selector was unavailable, the Location chosen is the last
\* of the (non-empty) list, which is the one of the bottom-most frame
\* header of the text; the run is not cancelled, goes on to Open, and an
\* editor launch is on that Location.
C4_FallbackLast ==
    SelectorUnavailable =>
        /\ locations # <<>>
        /\ selected = Len(locations)
        /\ LET ls == TextLines(text)
               hs == HeaderSeq(ls)
               last == HeaderFields(ls[hs[Len(hs)]])
           IN  /\ locations[selected].filepath = last.path
               /\ locations[selected].line = ParseInt(last.digits)
        /\ ~Printed("Cancelled")
        /\ pc = "AfterSelect" \/ Entered("Open")
        /\ \A i \in 1..Len(editor) :
              editor[i] = [filepath |-> locations[Len(locations)].filepath,
                           line |-> locations[Len(locations)].line]

\* C4 witness: two frame headers, no picker, and the editor opened on the
\* second one.
C4_Witness ==
    /\ SelectorUnavailable
    /\ fzf_rc = Unset
    /\ temp_file = "none"
    /\ Len(locations) = 2
    /\ locations[1].filepath # locations[2].filepath
    /\ Returned
    /\ Len(editor) = 1

\* C5: once the picker has exited with a non-zero status, select returns
\* None without raising (no fallback is taken), no editor is launched, the
\* run never enters Open, and when it ends it returns 0.
C5_PickerCancel ==
    (fzf_rc # Unset /\ fzf_rc # 0) =>
        /\ selected = 0
        /\ ~SelectorUnavailable
        /\ editor = <<>>
        /\ ~Entered("Open")
        /\ pc \in {"FzfResult", "AfterSelect", "Done"}
        /\ Returned => (main_return = 0 /\ Printed("Cancelled"))

\* C5 witness: the picker exited 130 and the run ended with exit code 0.
C5_Witness == fzf_rc = 130 /\ Returned /\ main_return = 0

\* What parse gives for the text of this run: the list main holds once it
\* has extracted, and parse applied to the text before that.
Parsed == IF Extracted THEN locations ELSE parse(text)

\* text and locations are assigned once in a run.  The properties of parse
\* are stated where they are new: right after the text was acquired (of
\* parse applied to it) and right after main extracted (of locations).
TextAcquired == pc = "ParseCheck"
JustExtracted == pc = "Select" \/ (Returned /\ LastPhase = "ParseExtract")

\* C6: when the picker exits 0 and its output line is the Display String
\* of an element x of the list, select returns the first Location whose
\* Display String equals that line, and not None.
C6_PickedItemIsReturned ==
    (pc \in {"AfterSelect", "Open", "Done"} /\ fzf_rc = 0) =>
        \A x \in 1..Len(locations) :
            fzf_out = Display(locations[x]) \o <<NL>> =>
                /\ selected # 0
                /\ Display(locations[selected]) = Display(locations[x])
                /\ \A j \in 1..(selected - 1) :
                      Display(locations[j]) # Display(locations[x])

\* C7: for every acquired text, parse gives one Location per frame-header
\* line, in the order of the lines (the k-th Location has the path and the
\* line number of the k-th frame-header line), marker or no marker; so it
\* is non-empty when the text has a frame-header line.
C7_OneLocationPerHeader ==
    (TextAcquired \/ JustExtracted) =>
        LET ls == TextLines(text)
            hs == HeaderSeq(ls)
            locs == Parsed
        IN  /\ Len(locs) = Len(hs)
            /\ \A k \in 1..Len(locs) :
                  LET header == HeaderFields(ls[hs[k]])
                  IN  /\ locs[k].filepath = header.path
                      /\ locs[k].line = ParseInt(header.digits)
            /\ hs # <<>> => locs # <<>>

\* C7 witness: parse has given two Locations with different paths.
C7_Witness ==
    /\ Extracted
    /\ Len(locations) = 2
    /\ locations[1].filepath # locations[2].filepath

\* C8: the code of the k-th Location is the line right after the k-th
\* frame header with its leading and trailing whitespace cut off (also
\* when that line is a frame header), and is empty when the frame header
\* is the last line of the text.
C8_CodeIsNextLineTrimmed ==
    (TextAcquired \/ JustExtracted) =>
        LET ls == TextLines(text)
            hs == HeaderSeq(ls)
            locs == Parsed
        IN  \A k \in 1..Len(locs) :
                k <= Len(hs) =>
                    IF hs[k] < Len(ls)
                    THEN IsTrimOf(locs[k].code, ls[hs[k] + 1])
                    ELSE locs[k].code = <<>>

\* C8 witness: parse has given a Location whose code is a following line
\* less its blanks, and one whose frame header is the last line.
C8_Witness ==
    /\ Extracted
    /\ \/ /\ Len(locations) = 1
          /\ locations[1].code # <<>>
          /\ NumLines(text) = 2
          /\ TextLine(text, 2) # locations[1].code
       \/ /\ Len(locations) = 2
          /\ locations[1].code # <<>>
          /\ locations[2].code = <<>>

\* C9: every Location has a non-empty function: the sentinel "<module>"
\* when its frame header has no "in" clause, and the text after "in " up
\* to the end of the line when it has one.
C9_FunctionNonEmpty ==
    (TextAcquired \/ JustExtracted) =>
        LET ls == TextLines(text)
            hs == HeaderSeq(ls)
            locs == Parsed
        IN  \A k \in 1..Len(locs) :
                /\ locs[k].function # <<>>
                /\ k <= Len(hs) =>
                      LET name == HeaderFields(ls[hs[k]]).name
                      IN  locs[k].function = IF name = <<>> THEN MODULE_SENTINEL ELSE name

\* C9 witness: parse has given a Location for a frame header without an
\* "in" clause and one for a frame header with it.
C9_Witness ==
    /\ Extracted
    /\ Len(locations) = 2
    /\ locations[1].function = MODULE_SENTINEL
    /\ HeaderFields(TextLine(text, 1)).name = <<>>
    /\ locations[2].function = <<"f">>

\* The text holds the marker phrase.
HasMarkerPhrase(t) == MARKER \in {t[i] : i \in 1..Len(t)}

\* C10: has_traceback is true exactly when the text holds the marker phrase
\* or one of its lines is a frame header; a text with neither is not
\* detected and parses to the empty list.
C10_DetectionIffMarkerOrHeaderLine ==
    (Entered("ParseCheck") /\ pc # "ParseCheck") =>
        LET hs == HeaderSeq(TextLines(text))
        IN  /\ Entered("ParseExtract") <=> (HasMarkerPhrase(text) \/ hs # <<>>)
            /\ (~HasMarkerPhrase(text) /\ hs = <<>>) => Parsed = <<>>

\* C11: for every Location parse gives, the Display String is
\* "filepath:line in function: code" (code with its blanks cut off) when
\* the function is not the sentinel "<module>", and "filepath:line: code",
\* without the "in" clause, when the function is the sentinel.
C11_DisplayOmitsSentinelClause ==
    (TextAcquired \/ JustExtracted) =>
        LET locs == Parsed
        IN  \A k \in 1..Len(locs) :
                LET loc == locs[k]
                    head == loc.filepath \o <<":">> \o IntToStr(loc.line)
                    tail == <<":", SP>> \o Strip(loc.code)
                IN  Display(loc) =
                        IF loc.function = MODULE_SENTINEL
                        THEN head \o tail
                        ELSE head \o <<SP, "in", SP>> \o loc.function \o tail

\* C12: every Location parse gives has line >= 1, and a line whose digits
\* do not denote a positive integer is not matched: the Locations are as
\* many as the frame-header lines whose digits denote a positive integer.
C12_LinePositive ==
    (TextAcquired \/ JustExtracted) =>
        LET ls == TextLines(text)
            hs == HeaderSeq(ls)
            locs == Parsed
            positive == {k \in 1..Len(hs) : ParseInt(HeaderFields(ls[hs[k]]).digits) >= 1}
        IN  /\ \A k \in 1..Len(locs) : locs[k].line >= 1
            /\ Len(locs) = Cardinality(positive)

\* select has returned or raised: main is past the call.
SelectLeft == pc \in {"AfterSelect", "Open", "Done"}

\* C13: whenever select has created the temporary candidate-list file, the
\* file no longer exists once select has returned or raised, whichever way
\* it went: an item picked, the picker exiting non-zero, the tty not
\* opened, the picker not launched, or the writing of the list failing.
C13_TempFileRemoved ==
    (SelectLeft /\ temp_file # "none") => temp_file = "removed"

\* The wrapped command could not be started: run gave the text of the error.
CommandNotStarted == command # <<>> /\ text = ErrText

\* C14: when the wrapped command cannot be started, run does not raise: it
\* gives the error text and exit code 1, main prints the command-failed
\* message, and the run goes into detection on that text as for a command
\* that ran and exited 1: the text has no traceback, so the run ends there
\* with exit code 1 and nothing after detection happens.
C14_StartFailureIsExitOne ==
    CommandNotStarted =>
        /\ exit_code = 1
        /\ consulted = {"command"}
        /\ Printed("Command failed")
        /\ ~Printed("Command succeeded (exit code 0)")
        /\ Entered("ParseCheck")
        /\ pc = "ParseCheck" \/ (Returned /\ NoTracebackDetected /\ main_return = 1)
        /\ locations = <<>>
        /\ editor = <<>>

\* C14 witness: the command could not be started and the run ended in
\* detection with exit code 1.
C14_Witness ==
    /\ CommandNotStarted
    /\ Returned
    /\ phases = <<"Acquire", "ParseCheck", "Done">>
    /\ main_return = 1

\* The phases of the run, in the order of main.
PhaseOrder == <<"Acquire", "ParseCheck", "ParseExtract", "Select", "Open">>

\* The phase a position of the run belongs to: select_location and what
\* main does with its result are the Select phase.
PhaseOf(p) ==
    IF p \in {"FzfTemp", "FzfRun", "FzfResult", "AfterSelect"} THEN "Select" ELSE p

\* The phases entered so far, the return left out.
PhasesEntered == IF Returned THEN SubSeq(phases, 1, Len(phases) - 1) ELSE phases

\* C16: the phases entered are, in this order and each once, the first few
\* of Acquire, ParseCheck, ParseExtract, Select, Open, and the run is in
\* the last of them or has returned from it; a phase was entered only
\* after the one before it took its success branch (a text acquired from a
\* source and no command exit code 0, a traceback detected, a non-empty
\* list, a Location chosen), and the run is done with the editor launched
\* only after all five.
C16_PhasesInOrder ==
    LET run == PhasesEntered
    IN  /\ Len(run) \in 1..Len(PhaseOrder)
        /\ run = SubSeq(PhaseOrder, 1, Len(run))
        /\ Returned \/ PhaseOf(pc) = run[Len(run)]
        /\ Returned => phases[Len(phases)] = "Done"
        /\ Entered("ParseCheck") =>
              /\ consulted # {}
              /\ ~Printed("Error: Could not read clipboard")
              /\ command # <<>> => (exit_code # Unset /\ exit_code # 0)
        /\ Entered("ParseExtract") => has_traceback(text)
        /\ Entered("Select") => locations # <<>>
        /\ Entered("Open") => selected \in 1..Len(locations)
        /\ editor # <<>> => (Returned /\ run = PhaseOrder)

\* C16 witness: a run that went through all five phases and returned.
C16_Witness ==
    /\ Returned
    /\ phases = PhaseOrder \o <<"Done">>
    /\ editor # <<>>

\* C17: the editor is launched at most once; a launch is on the file path
\* and line of the chosen element of the list parse gave for the text of
\* this run (so on those of a frame-header line of the text), the chosen
\* element being the last one when the selector was unavailable and else
\* the one whose Display String the picker emitted; and a run that was
\* cancelled, whose command exited 0, or that failed has launched none.
C17_EditorOnChosenLocation ==
    /\ Len(editor) <= 1
    /\ editor # <<>> =>
          LET ls == TextLines(text)
              hs == HeaderSeq(ls)
          IN  /\ locations = parse(text)
              /\ selected \in 1..Len(locations)
              /\ editor[1] = [filepath |-> locations[selected].filepath,
                              line |-> locations[selected].line]
              /\ \E k \in 1..Len(hs) :
                    /\ HeaderFields(ls[hs[k]]).path = editor[1].filepath
                    /\ ParseInt(HeaderFields(ls[hs[k]]).digits) = editor[1].line
              /\ IF SelectorUnavailable
                 THEN selected = Len(locations)
                 ELSE fzf_rc = 0 /\ Display(locations[selected]) = Strip(fzf_out)
              /\ main_return = 0
              /\ ~Printed("Cancelled")
              /\ ~Printed("Command succeeded (exit code 0)")
    /\ (Returned /\ (SelectionCancelled \/ CommandExitedZero \/ main_return = 1)) =>
          editor = <<>>

\* C17 witness: the picker chose the first of two Locations with different
\* paths, and the editor was launched on it.
C17_Witness ==
    /\ Returned
    /\ fzf_rc = 0
    /\ Len(locations) = 2
    /\ selected = 1
    /\ locations[1].filepath # locations[2].filepath
    /\ editor = <<[filepath |-> locations[1].filepath, line |-> locations[1].line]>>

\* The place of a position in the order of the code.
PCRank(p) == CHOOSE i \in 1..Len(PCOrder) : PCOrder[i] = p

\* C18: when every call to a collaborator returns, every run of main
\* reaches a terminal state with an exit code (0 or 1), and nothing in the
\* flow loops or retries: every step takes the run to a later position.
C18_RunTerminates ==
    /\ [][PCRank(pc') > PCRank(pc)]_vars
    /\ <>(Returned /\ main_return \in {0, 1})

\* C18 witness: a run that called the wrapped command, the picker and the
\* editor, and has returned.
C18_Witness ==
    /\ Returned
    /\ main_return \in {0, 1}
    /\ consulted = {"command"}
    /\ fzf_rc = 0
    /\ Entered("Open")

====
